---- MODULE Spec2Model ----
(***************************************************************************)
(* Model of the modal navigation engine of vim-notion                      *)
(* (src/src/content_scripts/vim.ts): the line registry with its keydown    *)
(* subscriptions, the two-mode key reducers, the cursor position mapping   *)
(* between a linear offset and a (node, offset) anchor in a surface's      *)
(* content tree, and the motions built on them.                            *)
(*                                                                         *)
(* Surfaces are the host's contenteditable elements.  A surface's content  *)
(* is the sequence of its child nodes; a node is a text node (data) or an  *)
(* element node (kids).  Texts are sequences of one-character strings and  *)
(* offsets are 0-based as in the source.  The host owns the content: it is *)
(* drawn at Init and the engine never changes it.                          *)
(***************************************************************************)
EXTENDS Integers, Sequences, FiniteSets, TLC

VARIABLES
    lines,          \* window.vim_info.lines: the elements of the TrackedLines, in order
    active_line,    \* window.vim_info.active_line
    mode,           \* window.vim_info.mode
    listeners,      \* the elements that hold a keydown subscription to handleKeydown
    indicator,      \* the .vim-mode element of the info container
    activeElement,  \* document.activeElement
    sel,            \* document.getSelection(): rangeCount and the start of range 0
    content,        \* the child nodes of every surface (host-owned)
    ev,             \* the last key event handed to handleKeydown, with the handler's locals
    op,             \* the last direct call of the cursor position model
    host            \* the host document's editable elements and the discovery machinery

vars == <<lines, active_line, mode, listeners, indicator, activeElement, sel, content, ev, op,
          host>>

(***************************************************************************)
(* Bounds                                                                  *)
(***************************************************************************)
NumSurfaces == 2    \* editable surfaces that discovery can deliver
MaxText == 2        \* longest text of the flat surfaces drawn exhaustively
MaxKids == 2        \* most child nodes of a node in the cursor-model trees
MaxDepth == 2       \* deepest nesting of element nodes in the cursor-model trees
MaxNodeText == 1    \* longest text node in the cursor-model trees

\* The editable surfaces of the document: the ones discovery can deliver in
\* any order, and one more that follows them in the longest document.
Surfaces == 1..(NumSurfaces + 1)
Listed == 1..NumSurfaces
Body == NumSurfaces + 2         \* document.body: focus outside every surface
Outside == NumSurfaces + 3      \* a node of the document outside every surface

(***************************************************************************)
(* Text                                                                    *)
(***************************************************************************)
Chars == {"a", " "}

\* The whitespace character class of ../constants.
whitespace == {" "}

\* RegExp.prototype.test(whitespace, c) for the first character c of a text;
\* for the empty text c is undefined, tested as the string "undefined".
whitespaceTest(t) == Len(t) > 0 /\ t[1] \in whitespace

\* String.prototype.search(whitespace): 0-based index of the first match, or -1.
search(t) ==
    IF \E i \in 1..Len(t) : t[i] \in whitespace
    THEN (CHOOSE i \in 1..Len(t) :
              /\ t[i] \in whitespace
              /\ \A j \in 1..(i - 1) : t[j] \notin whitespace) - 1
    ELSE 0 - 1

\* String.prototype.slice(from), from >= 0.
slice(t, from) == SubSeq(t, from + 1, Len(t))

TextsUpTo(n) == UNION {[1..k -> Chars] : k \in 0..n}

(***************************************************************************)
(* Content trees                                                           *)
(***************************************************************************)
TextNode(t) == [kind |-> "text", data |-> t, kids |-> <<>>]
ElementNode(k) == [kind |-> "elem", data |-> <<>>, kids |-> k]

\* A surface whose only child is one text node; the empty surface has no child.
Flat(t) == IF t = <<>> THEN <<>> ELSE <<TextNode(t)>>

RECURSIVE textContent(_)
RECURSIVE textContentOfNodes(_)
\* Node.textContent: the data of a text node, the concatenation over the
\* descendants of an element.
textContent(node) ==
    IF node.kind = "text" THEN node.data ELSE textContentOfNodes(node.kids)
textContentOfNodes(nodes) ==
    IF nodes = <<>> THEN <<>>
    ELSE textContent(Head(nodes)) \o textContentOfNodes(Tail(nodes))

\* element.innerText / element.textContent of a surface (inline content only,
\* where the two agree).
innerText(s) == IF s \in Surfaces THEN textContentOfNodes(content[s]) ELSE <<>>

SeqsUpTo(S, n) == UNION {[1..k -> S] : k \in 0..n}

RECURSIVE NodesUpTo(_)
\* Every node with element nesting at most d.
NodesUpTo(d) ==
    LET texts == {TextNode(t) : t \in UNION {[1..k -> {"a"}] : k \in 0..MaxNodeText}}
    IN  IF d = 0 THEN texts
        ELSE texts \cup {ElementNode(k) : k \in SeqsUpTo(NodesUpTo(d - 1), MaxKids)}

RECURSIVE NodeAt(_, _)
\* The node reached from a list of child nodes along a path of child indices.
NodeAt(nodes, path) ==
    IF Len(path) = 1 THEN nodes[Head(path)]
    ELSE NodeAt(nodes[Head(path)].kids, Tail(path))

RECURSIVE TextPaths(_, _)
\* The paths of the text nodes below a list of child nodes.
TextPaths(nodes, prefix) ==
    UNION {IF nodes[k].kind = "text" THEN {Append(prefix, k)}
           ELSE TextPaths(nodes[k].kids, Append(prefix, k)) : k \in 1..Len(nodes)}

(***************************************************************************)
(* Selection                                                               *)
(***************************************************************************)
NoSelection == [rangeCount |-> 0, surface |-> Body, path |-> <<>>, offset |-> 0]
OutsideSelection == [rangeCount |-> 1, surface |-> Outside, path |-> <<>>, offset |-> 0]
Caret(s, p, o) == [rangeCount |-> 1, surface |-> s, path |-> p, offset |-> o]

\* The collapsed selections a user can place inside the text nodes of surface s.
CaretsIn(c, s) ==
    UNION {{Caret(s, p, o) : o \in 0..Len(NodeAt(c[s], p).data)} : p \in TextPaths(c[s], <<>>)}

(***************************************************************************)
(* Cursor position model.  The functions of the engine read and write the  *)
(* document through a record st of the fields they touch:                  *)
(* lines, active_line, mode, listeners, indicator, activeElement, sel.     *)
(***************************************************************************)
Doc == [lines |-> lines, active_line |-> active_line, mode |-> mode,
        listeners |-> listeners, indicator |-> indicator,
        activeElement |-> activeElement, sel |-> sel]

RECURSIVE checkElementNode(_, _, _, _, _)
\* The inner function of getCursorIndex over the child nodes of one element,
\* from child k on, with the accumulator i: [found, i].  A child element that
\* reports the anchor ends the loop, after which the function returns false.
checkElementNode(st, nodes, path, k, i) ==
    IF k > Len(nodes) THEN [found |-> FALSE, i |-> i]
    ELSE LET node == nodes[k]
             p == Append(path, k)
         IN  IF node.kind = "elem"
             THEN LET r == checkElementNode(st, node.kids, p, 1, i)
                  IN  IF r.found THEN [found |-> FALSE, i |-> r.i]
                      ELSE checkElementNode(st, nodes, path, k + 1, r.i)
             ELSE IF st.sel.surface = st.activeElement /\ st.sel.path = p
                  THEN [found |-> TRUE, i |-> i + st.sel.offset]
                  ELSE checkElementNode(st, nodes, path, k + 1, i + Len(node.data))

getCursorIndex(st) ==
    IF st.sel.rangeCount = 0 THEN 0
    ELSE IF st.activeElement \in Surfaces
         THEN checkElementNode(st, content[st.activeElement], <<>>, 1, 0).i
         ELSE 0

RECURSIVE setCursorWalk(_, _, _, _, _)
\* The loop of setCursorPosition over the child nodes of one element, from
\* child k on, with the accumulator i: the anchor it sets, if it sets one.
setCursorWalk(nodes, index, path, k, i) ==
    IF k > Len(nodes) THEN [placed |-> FALSE, path |-> <<>>, offset |-> 0]
    ELSE LET node == nodes[k]
             n == Len(textContent(node))
             isInRange == index >= i /\ index <= i + n
         IN  IF isInRange /\ node.kind = "elem"
             THEN setCursorWalk(node.kids, index - i, Append(path, k), 1, 0)
             ELSE IF isInRange
                  THEN [placed |-> TRUE, path |-> Append(path, k), offset |-> index - i]
                  ELSE setCursorWalk(nodes, index, path, k + 1, i + n)

setCursorPosition(st, element, index) ==
    LET r == IF element \in Surfaces
             THEN setCursorWalk(content[element], index, <<>>, 1, 0)
             ELSE [placed |-> FALSE, path |-> <<>>, offset |-> 0]
    IN  IF r.placed THEN [st EXCEPT !.sel = Caret(element, r.path, r.offset)] ELSE st

(***************************************************************************)
(* Mode indicator                                                          *)
(***************************************************************************)
toUpperCase(m) == CASE m = "normal" -> "NORMAL" [] m = "insert" -> "INSERT"

getModeText(m) == "-- " \o toUpperCase(m) \o " --"

\* updateInfoContainer writing nothing: the label shown is the one of creation.
updateInfoContainer_Stale(st) == st

\* Sets the text of the .vim-mode element, if the document has one.
updateInfoContainer(st) ==
    IF st.indicator.present
    THEN [st EXCEPT !.indicator = [present |-> TRUE, text |-> getModeText(st.mode)]]
    ELSE st

(***************************************************************************)
(* Line registry                                                           *)
(***************************************************************************)
\* lines[k] && lines[k].element, for a 0-based index k.
hasLine(lns, k) == k >= 0 /\ k < Len(lns)
elementAt(lns, k) == lns[k + 1].element

\* setActiveLine without the clamp of a negative index.
setActiveLine_NoLowerClamp(st, idx) ==
    LET lns == st.lines
        active == st.active_line
        i == IF idx >= Len(lns) THEN Len(lns) - 1 ELSE idx
        st1 == IF hasLine(lns, active)
               THEN [st EXCEPT !.listeners = @ \ {elementAt(lns, active)}]
               ELSE st
    IN  IF hasLine(lns, i)
        THEN [st1 EXCEPT !.activeElement = elementAt(lns, i),
                         !.listeners = @ \cup {elementAt(lns, i)},
                         !.active_line = i]
        ELSE st1

\* setActiveLine without the clamp of an index beyond the last line.
setActiveLine_NoUpperClamp(st, idx) ==
    LET lns == st.lines
        active == st.active_line
        i == IF idx < 0 THEN 0 ELSE idx
        st1 == IF hasLine(lns, active)
               THEN [st EXCEPT !.listeners = @ \ {elementAt(lns, active)}]
               ELSE st
    IN  IF hasLine(lns, i)
        THEN [st1 EXCEPT !.activeElement = elementAt(lns, i),
                         !.listeners = @ \cup {elementAt(lns, i)},
                         !.active_line = i]
        ELSE st1

\* element.click() hands the keyboard focus to the element (section 4.2 of
\* the spec: the host's native focus behaviour); the selection is the host's.
setActiveLine(st, idx) ==
    LET lns == st.lines
        active == st.active_line
        i0 == IF idx >= Len(lns) THEN Len(lns) - 1 ELSE idx
        i == IF i0 < 0 THEN 0 ELSE i0
        st1 == IF hasLine(lns, active)
               THEN [st EXCEPT !.listeners = @ \ {elementAt(lns, active)}]
               ELSE st
    IN  IF hasLine(lns, i)
        THEN [st1 EXCEPT !.activeElement = elementAt(lns, i),
                         !.listeners = @ \cup {elementAt(lns, i)},
                         !.active_line = i]
        ELSE st1

\* setLines activating the first line instead of the previously active index.
setLines_FirstLine(st, f) ==
    LET st1 == [st EXCEPT !.lines =
                    [k \in 1..Len(f) |-> [cursor_position |-> 0, element |-> f[k]]]]
    IN  setActiveLine(st1, 0)

\* f.map(...) builds the new TrackedLines; vim_info.active_line || 0 is
\* vim_info.active_line for an integer.
setLines(st, f) ==
    LET st1 == [st EXCEPT !.lines =
                    [k \in 1..Len(f) |-> [cursor_position |-> 0, element |-> f[k]]]]
    IN  setActiveLine(st1, st1.active_line)

(***************************************************************************)
(* Motions                                                                 *)
(***************************************************************************)
RECURSIVE jumpToNextWORD(_, _, _, _)
\* jumpToNextWORD continuing into the next line without the explicit surface
\* and offset, so that the continuation may advance the line again.
jumpToNextWORD_KeepsAdvancing(st, given, node, start_position) ==
    LET active == st.active_line
        lns == st.lines
        currentCursorPosition == IF given THEN start_position ELSE getCursorIndex(st)
        currentNode == IF given THEN node ELSE st.activeElement
        currentLineTextContent == innerText(currentNode)
        currentRemainingText == slice(currentLineTextContent, currentCursorPosition)
        nextWhiteSpaceAfterCursor == search(currentRemainingText)
        nextWhiteSpaceIndex ==
            IF nextWhiteSpaceAfterCursor >= 0
            THEN currentCursorPosition + nextWhiteSpaceAfterCursor
            ELSE Len(currentLineTextContent)
    IN  IF nextWhiteSpaceIndex < Len(currentLineTextContent)
        THEN setCursorPosition(st, currentNode, nextWhiteSpaceIndex + 1)
        ELSE IF ~given /\ hasLine(lns, active + 1)
             THEN LET new_elem == elementAt(lns, active + 1)
                      st1 == setActiveLine(st, active + 1)
                  IN  IF whitespaceTest(innerText(new_elem))
                      THEN jumpToNextWORD(st1, FALSE, Body, 0)
                      ELSE setCursorPosition(st1, new_elem, 0)
             ELSE setCursorPosition(st, currentNode, nextWhiteSpaceIndex)

\* jumpToNextWORD landing on the whitespace it found instead of one past it.
jumpToNextWORD_OnWhitespace(st, given, node, start_position) ==
    LET active == st.active_line
        lns == st.lines
        currentCursorPosition == IF given THEN start_position ELSE getCursorIndex(st)
        currentNode == IF given THEN node ELSE st.activeElement
        currentLineTextContent == innerText(currentNode)
        currentRemainingText == slice(currentLineTextContent, currentCursorPosition)
        nextWhiteSpaceAfterCursor == search(currentRemainingText)
        nextWhiteSpaceIndex ==
            IF nextWhiteSpaceAfterCursor >= 0
            THEN currentCursorPosition + nextWhiteSpaceAfterCursor
            ELSE Len(currentLineTextContent)
    IN  IF nextWhiteSpaceIndex < Len(currentLineTextContent)
        THEN setCursorPosition(st, currentNode, nextWhiteSpaceIndex)
        ELSE IF ~given /\ hasLine(lns, active + 1)
             THEN LET new_elem == elementAt(lns, active + 1)
                      st1 == setActiveLine(st, active + 1)
                  IN  IF whitespaceTest(innerText(new_elem))
                      THEN jumpToNextWORD(st1, TRUE, elementAt(lns, active + 1), 0)
                      ELSE setCursorPosition(st1, new_elem, 0)
             ELSE setCursorPosition(st, currentNode, nextWhiteSpaceIndex)

\* given = FALSE is the call without arguments (node and start_position
\* undefined); given = TRUE is the call jumpToNextWORD(node, start_position).
jumpToNextWORD(st, given, node, start_position) ==
    LET active == st.active_line
        lns == st.lines
        currentCursorPosition == IF given THEN start_position ELSE getCursorIndex(st)
        currentNode == IF given THEN node ELSE st.activeElement
        currentLineTextContent == innerText(currentNode)
        currentRemainingText == slice(currentLineTextContent, currentCursorPosition)
        nextWhiteSpaceAfterCursor == search(currentRemainingText)
        nextWhiteSpaceIndex ==
            IF nextWhiteSpaceAfterCursor >= 0
            THEN currentCursorPosition + nextWhiteSpaceAfterCursor
            ELSE Len(currentLineTextContent)
    IN  IF nextWhiteSpaceIndex < Len(currentLineTextContent)
        THEN setCursorPosition(st, currentNode, nextWhiteSpaceIndex + 1)
        ELSE IF ~given /\ hasLine(lns, active + 1)
             THEN LET new_elem == elementAt(lns, active + 1)
                      st1 == setActiveLine(st, active + 1)
                  IN  IF whitespaceTest(innerText(new_elem))
                      THEN jumpToNextWORD(st1, TRUE, elementAt(lns, active + 1), 0)
                      ELSE setCursorPosition(st1, new_elem, 0)
             ELSE setCursorPosition(st, currentNode, nextWhiteSpaceIndex)

moveCursorBackwards(st) ==
    LET currentCursorPosition == getCursorIndex(st)
    IN  IF currentCursorPosition = 0 THEN st
        ELSE setCursorPosition(st, st.activeElement, currentCursorPosition - 1)

moveCursorForwards(st) ==
    LET currentCursorPosition == getCursorIndex(st)
    IN  IF currentCursorPosition >= Len(innerText(st.activeElement)) THEN st
        ELSE setCursorPosition(st, st.activeElement, currentCursorPosition + 1)

(***************************************************************************)
(* Key reducers: [st, defaultPrevented, propagationStopped]                *)
(***************************************************************************)
Keys == {"a", "i", "h", "j", "k", "l", "W", "Escape", "x"}

Handled(st, prevented, stopped) ==
    [st |-> st, defaultPrevented |-> prevented, propagationStopped |-> stopped]

\* insertReducer suppressing the default of every key, as normalReducer does.
insertReducer_PreventAll(st, key) ==
    IF key = "Escape"
    THEN Handled(updateInfoContainer([st EXCEPT !.mode = "normal"]), TRUE, TRUE)
    ELSE Handled(st, TRUE, FALSE)

insertReducer(st, key) ==
    IF key = "Escape"
    THEN Handled(updateInfoContainer([st EXCEPT !.mode = "normal"]), TRUE, TRUE)
    ELSE Handled(st, FALSE, FALSE)

\* normalReducer leaving the default of the keys it does not know.
normalReducer_PassesUnknown(st, key) ==
    LET active == st.active_line
    IN  CASE key \in {"a", "i"} ->
                Handled(updateInfoContainer([st EXCEPT !.mode = "insert"]), TRUE, FALSE)
          [] key = "h" -> Handled(moveCursorBackwards(st), TRUE, FALSE)
          [] key = "j" -> Handled(setActiveLine(st, active + 1), TRUE, FALSE)
          [] key = "k" -> Handled(setActiveLine(st, active - 1), TRUE, FALSE)
          [] key = "l" -> Handled(moveCursorForwards(st), TRUE, FALSE)
          [] key = "W" -> Handled(jumpToNextWORD(st, FALSE, Body, 0), TRUE, FALSE)
          [] OTHER -> Handled(st, FALSE, FALSE)

normalReducer(st, key) ==
    LET active == st.active_line
    IN  CASE key \in {"a", "i"} ->
                Handled(updateInfoContainer([st EXCEPT !.mode = "insert"]), TRUE, FALSE)
          [] key = "h" -> Handled(moveCursorBackwards(st), TRUE, FALSE)
          [] key = "j" -> Handled(setActiveLine(st, active + 1), TRUE, FALSE)
          [] key = "k" -> Handled(setActiveLine(st, active - 1), TRUE, FALSE)
          [] key = "l" -> Handled(moveCursorForwards(st), TRUE, FALSE)
          [] key = "W" -> Handled(jumpToNextWORD(st, FALSE, Body, 0), TRUE, FALSE)
          [] OTHER -> Handled(st, TRUE, FALSE)

handleKeydown(st, key) ==
    IF st.mode = "normal" THEN normalReducer(st, key) ELSE insertReducer(st, key)

(***************************************************************************)
(* Initial state: initVimInfo and createInfoContainer have run.            *)
(***************************************************************************)
initVimInfo ==
    [lines |-> <<>>, active_line |-> 0, mode |-> "normal", listeners |-> {},
     indicator |-> [present |-> FALSE, text |-> ""],
     activeElement |-> Body, sel |-> NoSelection]

createInfoContainer(st) ==
    [st EXCEPT !.indicator = [present |-> TRUE, text |-> getModeText(st.mode)]]

NoEvent ==
    [key |-> "none", defaultPrevented |-> FALSE, propagationStopped |-> FALSE,
     mode |-> "normal", line |-> 0, target |-> Body, from |-> 0]

\* The last call: its name, its integer argument or the active line it found,
\* its result, and the list it was given (setLines only).
Called(name, index, ret) == [name |-> name, index |-> index, ret |-> ret, arg |-> <<>>]

\* The variables take the fields of a document record.
Becomes(st) ==
    /\ lines' = st.lines
    /\ active_line' = st.active_line
    /\ mode' = st.mode
    /\ listeners' = st.listeners
    /\ indicator' = st.indicator
    /\ activeElement' = st.activeElement
    /\ sel' = st.sel

Starts(st) ==
    /\ lines = st.lines
    /\ active_line = st.active_line
    /\ mode = st.mode
    /\ listeners = st.listeners
    /\ indicator = st.indicator
    /\ activeElement = st.activeElement
    /\ sel = st.sel

\* The contents of the registry specification: short flat lines.
RegistryTrees == {Flat(<<"a">>), Flat(<<" ", "a">>)}

\* The discovery machinery at rest: the specifications of the engine call
\* setLines directly.
HostIdle ==
    [dom |-> <<>>, attempts |-> 0, poll |-> "none", observer |-> "none",
     mutated |-> FALSE, path |-> "none"]

Init ==
    /\ content \in {c \in [Surfaces -> RegistryTrees \cup {<<>>}] :
                       \A s \in Surfaces : s \in Listed <=> c[s] # <<>>}
    /\ Starts(createInfoContainer(initVimInfo))
    /\ ev = NoEvent
    /\ op = Called("init", 0, 0)
    /\ host = HostIdle

(***************************************************************************)
(* Actions                                                                 *)
(***************************************************************************)
\* The surface lists discovery delivers: distinct elements in document order,
\* at least one (both callers of setLines test editableElements.length > 0).
SurfaceLists ==
    {f \in SeqsUpTo(Listed, NumSurfaces) :
        /\ f # <<>>
        /\ \A x, y \in 1..Len(f) : x # y => f[x] # f[y]}

\* setLines(f), as called by the discovery poll and the mutation observer.
SetLines(f) ==
    /\ Becomes(setLines(Doc, f))
    /\ ev' = NoEvent
    /\ op' = [Called("setLines", active_line, 0) EXCEPT !.arg = f]
    /\ UNCHANGED <<content, host>>

\* setActiveLine(idx) with any integer near the registry's range.
SetActiveLine(idx) ==
    /\ Becomes(setActiveLine(Doc, idx))
    /\ ev' = NoEvent
    /\ op' = Called("setActiveLine", idx, active_line)
    /\ UNCHANGED <<content, host>>

\* A keydown event on the focused element, which holds the subscription.
KeyDown(key) ==
    /\ activeElement \in listeners
    /\ LET r == handleKeydown(Doc, key)
       IN  /\ Becomes(r.st)
           /\ ev' = [key |-> key,
                     defaultPrevented |-> r.defaultPrevented,
                     propagationStopped |-> r.propagationStopped,
                     mode |-> mode,
                     line |-> active_line,
                     target |-> activeElement,
                     from |-> IF mode = "normal" /\ key \in {"h", "l", "W"}
                              THEN getCursorIndex(Doc) ELSE 0]
    /\ op' = Called("keydown", 0, 0)
    /\ UNCHANGED <<content, host>>

\* The user clicks into a surface: it takes the focus and the caret goes to
\* the clicked position (the surface itself when it has no text node).
UserClick(s, caret) ==
    /\ activeElement' = s
    /\ sel' = caret
    /\ ev' = NoEvent
    /\ op' = Called("click", 0, 0)
    /\ UNCHANGED <<lines, active_line, mode, listeners, indicator, content, host>>

ClickTargets(s) ==
    IF CaretsIn(content, s) = {} THEN {Caret(s, <<>>, 0)} ELSE CaretsIn(content, s)

\* The user clicks outside every surface: focus and selection leave them.
UserClickOutside ==
    /\ activeElement' = Body
    /\ sel' = OutsideSelection
    /\ ev' = NoEvent
    /\ op' = Called("click", 0, 0)
    /\ UNCHANGED <<lines, active_line, mode, listeners, indicator, content, host>>

Next ==
    \/ \E f \in SurfaceLists : SetLines(f)
    \/ \E idx \in (0 - 1)..(NumSurfaces + 1) : SetActiveLine(idx)
    \/ \E key \in Keys : KeyDown(key)
    \/ \E s \in Listed : \E caret \in ClickTargets(s) : UserClick(s, caret)
    \/ UserClickOutside

Spec == Init /\ [][Next]_vars

(***************************************************************************)
(* The cursor position model on its own: one surface with an arbitrary     *)
(* content tree has the focus, the selection is anywhere, and the two      *)
(* functions are called directly.                                          *)
(***************************************************************************)
CursorSurface == CHOOSE s \in Surfaces : \A t \in Surfaces : s <= t

InitCursor ==
    /\ \E tree \in SeqsUpTo(NodesUpTo(MaxDepth), MaxKids) :
           content = [s \in Surfaces |-> IF s = CursorSurface THEN tree ELSE <<>>]
    /\ \E caret \in {NoSelection, OutsideSelection} \cup CaretsIn(content, CursorSurface) :
           Starts([setLines(createInfoContainer(initVimInfo), <<CursorSurface>>)
                       EXCEPT !.sel = caret])
    /\ ev = NoEvent
    /\ op = Called("init", 0, 0)
    /\ host = HostIdle

CallSetCursorPosition(index) ==
    /\ Becomes(setCursorPosition(Doc, activeElement, index))
    /\ op' = Called("setCursorPosition", index, 0)
    /\ UNCHANGED <<content, ev, host>>

CallGetCursorIndex ==
    /\ op' = Called("getCursorIndex", 0, getCursorIndex(Doc))
    /\ UNCHANGED <<lines, active_line, mode, listeners, indicator, activeElement, sel,
                   content, ev, host>>

NextCursor ==
    \/ \E index \in 0..(Len(innerText(activeElement)) + 1) : CallSetCursorPosition(index)
    \/ CallGetCursorIndex

SpecCursor == InitCursor /\ [][NextCursor]_vars

(***************************************************************************)
(* The motions on a registered document: the first surfaces of the         *)
(* document are the tracked lines, the first two carry arbitrary texts     *)
(* (flat, or with inline elements), further ones are empty.                *)
(***************************************************************************)
\* Every flat text up to MaxText, the two worked texts of the spec reduced
\* to one letter per word ('hello world', '  next'), and inline elements:
\* one level, two levels, and an empty element in front.
WordTrees ==
    {Flat(t) : t \in TextsUpTo(MaxText)} \cup
    {Flat(<<"a", " ", "a">>), Flat(<<" ", " ", "a">>)} \cup
    {<<ElementNode(<<TextNode(<<"a">>)>>), TextNode(<<" ", "a">>)>>,
     <<ElementNode(<<ElementNode(<<TextNode(<<"a">>)>>)>>), TextNode(<<" ", "a">>)>>,
     <<ElementNode(<<>>), TextNode(<<"a">>)>>}

\* The first n surfaces in document order.
FirstLines(n) == [k \in 1..n |-> k]

InitWord ==
    /\ content \in {c \in [Surfaces -> WordTrees] : \A s \in Surfaces : s > 2 => c[s] = <<>>}
    /\ \E n \in 1..(NumSurfaces + 1) :
           Starts(setLines(createInfoContainer(initVimInfo), FirstLines(n)))
    /\ ev = NoEvent
    /\ op = Called("setLines", 0, 0)
    /\ host = HostIdle

NextWord ==
    \/ \E key \in Keys : KeyDown(key)
    \/ \E s \in Surfaces : \E caret \in ClickTargets(s) : UserClick(s, caret)

SpecWord == InitWord /\ [][NextWord]_vars

(***************************************************************************)
(* Line registry and mode: properties                                      *)
(***************************************************************************)
\* The element of the active line, if the registry has one at active_line.
ActiveElements == IF hasLine(lines, active_line) THEN {elementAt(lines, active_line)} ELSE {}

\* C1: in every reachable state at most one surface holds a keydown
\* subscription, also across a setLines call that changes the surface list.
AtMostOneSubscription == Cardinality(listeners) <= 1

\* C2: no surface other than the active line's holds a keydown subscription,
\* and whenever lines is non-empty the active line's surface is subscribed.
SubscriptionsPaired ==
    /\ listeners \subseteq ActiveElements
    /\ lines # <<>> => ActiveElements # {} /\ ActiveElements \subseteq listeners

\* C3: whenever lines is non-empty, 0 <= active_line < lines.length.
ActiveLineInRange == lines # <<>> => active_line >= 0 /\ active_line < Len(lines)

\* C3 witness: setLines has delivered a non-empty list shorter than the
\* previous active index, and the index was brought back into range.
ShrunkBelowActive ==
    /\ op.name = "setLines"
    /\ lines # <<>>
    /\ op.index >= Len(lines)
    /\ active_line = Len(lines) - 1

\* C4: the mode starts as normal; it changes only by 'a' or 'i' in normal and
\* by 'Escape' in insert, each with the default suppressed; every such key
\* changes it; any other key in insert leaves the mode and does not suppress
\* the event.
ModeTransitionRelation ==
    /\ mode = "normal"
    /\ [][/\ mode # mode' => op'.name = "keydown"
          /\ op'.name = "keydown" =>
                /\ mode = "normal" /\ ev'.key \in {"a", "i"} =>
                        mode' = "insert" /\ ev'.defaultPrevented
                /\ mode = "normal" /\ ev'.key \notin {"a", "i"} => mode' = "normal"
                /\ mode = "insert" /\ ev'.key = "Escape" =>
                        mode' = "normal" /\ ev'.defaultPrevented
                /\ mode = "insert" /\ ev'.key # "Escape" =>
                        mode' = "insert" /\ ~ev'.defaultPrevented]_vars

\* C4 witness: Escape has brought an insert-mode engine back to normal.
EscapedToNormal ==
    /\ ev.key = "Escape"
    /\ ev.mode = "insert"
    /\ ev.defaultPrevented
    /\ mode = "normal"

\* C5: the indicator shows '-- NORMAL --' when the mode is normal and
\* '-- INSERT --' when it is insert, after initialization and every key event.
IndicatorShowsMode ==
    /\ indicator.present
    /\ mode = "normal" => indicator.text = "-- NORMAL --"
    /\ mode = "insert" => indicator.text = "-- INSERT --"

\* C5 witness: a key has switched the mode to insert and the label followed.
IndicatorAfterInsert ==
    /\ ev.key \in {"a", "i"}
    /\ ev.mode = "normal"
    /\ mode = "insert"
    /\ indicator.text = "-- INSERT --"

(***************************************************************************)
(* Cursor position model: properties                                       *)
(***************************************************************************)
RECURSIVE LinearOffset(_, _, _)
\* The linear offset of the anchor (path, offset) below a list of child
\* nodes: the text before it in document order.
LinearOffset(nodes, path, offset) ==
    Len(textContentOfNodes(SubSeq(nodes, 1, Head(path) - 1))) +
    (IF Len(path) = 1 THEN offset
     ELSE LinearOffset(nodes[Head(path)].kids, Tail(path), offset))

\* The linear offset of the cursor in surface s: 0 when the selection is not
\* inside one of its text nodes.
CursorOffset(s) ==
    IF sel.rangeCount = 1 /\ sel.surface = s /\ sel.path # <<>>
    THEN LinearOffset(content[s], sel.path, sel.offset)
    ELSE 0

\* C6: after setCursorPosition(S, o) with 0 <= o <= len(S.text),
\* getCursorIndex returns exactly o, for every content tree.
RoundTripExact ==
    op.name = "setCursorPosition" /\ op.index <= Len(innerText(activeElement))
        => getCursorIndex(Doc) = op.index

\* C7: setCursorPosition(S, o) with o > len(S.text) places the collapsed
\* selection at the end of the last text-bearing node, at linear offset
\* len(S.text), rather than leaving the previous selection in place
\* (stated for the surfaces that have text to place it in).
ClampsBeyondEnd ==
    (/\ op.name = "setCursorPosition"
     /\ op.index > Len(innerText(activeElement))
     /\ Len(innerText(activeElement)) > 0)
    => (/\ sel.rangeCount = 1
        /\ sel.surface = activeElement
        /\ sel.path # <<>>
        /\ CursorOffset(activeElement) = Len(innerText(activeElement)))

\* C8: getCursorIndex returns 0 when the document has no selection range and
\* when the selection anchor is in no node of the active surface.
ZeroWithoutSelection ==
    op.name = "getCursorIndex" /\ (sel.rangeCount = 0 \/ sel.surface # activeElement)
        => op.ret = 0

(***************************************************************************)
(* Word-forward: properties                                                *)
(***************************************************************************)
\* The 0-based indexes at or after o of the whitespace characters of t.
WhitespaceFrom(t, o) == {i \in o..(Len(t) - 1) : t[i + 1] \in whitespace}

Least(S) == CHOOSE x \in S : \A y \in S : x <= y

\* The 0-based index of the first non-whitespace character of t, len(t) if none.
FirstNonWhitespace(t) ==
    LET solid == {i \in 0..(Len(t) - 1) : t[i + 1] \notin whitespace}
    IN  IF solid = {} THEN Len(t) ELSE Least(solid)

\* The last key was W in normal mode.
WordForwardDone == ev.key = "W" /\ ev.mode = "normal"

\* C9: word-forward from offset o in a surface of text t with no next line:
\* the cursor lands one past the first whitespace at an index >= o, or at
\* len(t) when there is none; active_line is unchanged.
WordForwardWithinSurface ==
    WordForwardDone /\ ~hasLine(lines, ev.line + 1) =>
        LET t == innerText(ev.target)
            ws == WhitespaceFrom(t, ev.from)
        IN  /\ ev.from >= 0 /\ ev.from <= Len(t)
            /\ ws # {} => CursorOffset(ev.target) = Least(ws) + 1
            /\ ws = {} => CursorOffset(ev.target) = Len(t)
            /\ active_line = ev.line

\* C9 witness: on the last line with text 'a a', W from offset 0 has landed
\* on offset 2.
WordForwardToNextWord ==
    /\ WordForwardDone
    /\ ~hasLine(lines, ev.line + 1)
    /\ innerText(ev.target) = <<"a", " ", "a">>
    /\ ev.from = 0
    /\ CursorOffset(ev.target) = 2
    /\ active_line = ev.line

\* C10: word-forward at the end of the active line with a next line advances
\* active_line by exactly 1 and lands on the first non-whitespace character
\* of the next line (offset 0 when it has no leading whitespace, the end of
\* the surface when it is all whitespace).
WordForwardIntoNextLine ==
    (/\ WordForwardDone
     /\ hasLine(lines, ev.line)
     /\ ev.target = elementAt(lines, ev.line)
     /\ ev.from = Len(innerText(ev.target))
     /\ hasLine(lines, ev.line + 1))
    => (/\ active_line = ev.line + 1
        /\ CursorOffset(elementAt(lines, ev.line + 1)) =
               FirstNonWhitespace(innerText(elementAt(lines, ev.line + 1))))

\* The offset word-forward computes from offset o in text t: one past the
\* first whitespace at an index >= o, len(t) when there is none.
Landing(t, o) ==
    IF WhitespaceFrom(t, o) # {} THEN Least(WhitespaceFrom(t, o)) + 1 ELSE Len(t)

\* C11: whenever a user-initiated word-forward on the active line computes a
\* landing offset equal to the text length and a next line exists, the active
\* line advances to it, also when the landing is found_index + 1 because the
\* only remaining whitespace is the last character.
AdvancesAtEndOfText ==
    (/\ WordForwardDone
     /\ hasLine(lines, ev.line)
     /\ ev.target = elementAt(lines, ev.line)
     /\ hasLine(lines, ev.line + 1)
     /\ Landing(innerText(ev.target), ev.from) = Len(innerText(ev.target)))
    => active_line = ev.line + 1

\* C15: character-left at offset 0 and character-right at len(text) change
\* neither the selection nor the navigation state; at any other offset o
\* they place the cursor at o - 1 and o + 1, inside [0, len(text)].
CharacterSteps ==
    [][op'.name = "keydown" /\ mode = "normal" /\ ev'.key \in {"h", "l"} =>
         LET o == getCursorIndex(Doc)
             n == Len(innerText(activeElement))
             landed == CursorOffset(activeElement)'
         IN  /\ lines' = lines /\ active_line' = active_line /\ mode' = mode
             /\ ev'.key = "h" /\ o = 0 => sel' = sel
             /\ ev'.key = "h" /\ o # 0 => landed = o - 1
             /\ ev'.key = "l" /\ o = n => sel' = sel
             /\ ev'.key = "l" /\ o # n => landed = o + 1
             /\ landed >= 0 /\ landed <= n]_vars

\* C20: one word-forward changes active_line by at most +1: the continuation
\* into the next line is entered at most once, also when the following lines
\* are empty or all whitespace.
WordForwardAdvancesAtMostOnce ==
    WordForwardDone => active_line = ev.line \/ active_line = ev.line + 1

\* C20 witness: W at the end of the first line, followed by an all-whitespace
\* line and an empty line, has advanced to the second line and stopped there.
StoppedOnWhitespaceLine ==
    /\ WordForwardDone
    /\ Len(lines) >= 3
    /\ ev.line = 0
    /\ active_line = 1
    /\ innerText(elementAt(lines, 1)) # <<>>
    /\ \A k \in 1..Len(innerText(elementAt(lines, 1))) :
           innerText(elementAt(lines, 1))[k] \in whitespace
    /\ innerText(elementAt(lines, 2)) = <<>>

(***************************************************************************)
(* Line registry: properties of setActiveLine and setLines                 *)
(***************************************************************************)
\* min(max(i, 0), n - 1)
Clamp(i, n) == IF i < 0 THEN 0 ELSE IF i > n - 1 THEN n - 1 ELSE i

\* C12: on a non-empty registry setActiveLine(idx) commits
\* active_line = min(max(idx, 0), lines.length - 1) for every integer idx, and
\* line-down on the last line and line-up on the first leave active_line and
\* the subscribed surfaces unchanged.
ClampedActivation ==
    [][/\ op'.name = "setActiveLine" /\ lines # <<>> =>
              active_line' = Clamp(op'.index, Len(lines))
       /\ (/\ op'.name = "keydown" /\ mode = "normal" /\ lines # <<>>
           /\ \/ ev'.key = "j" /\ active_line = Len(lines) - 1
              \/ ev'.key = "k" /\ active_line = 0)
          => active_line' = active_line /\ listeners' = listeners]_vars

\* C12 witness: line-down was pressed on the last of several lines and the
\* active line stayed.
LineDownAtLastLine ==
    /\ ev.key = "j"
    /\ ev.mode = "normal"
    /\ Len(lines) >= 2
    /\ ev.line = Len(lines) - 1
    /\ active_line = ev.line
    /\ elementAt(lines, active_line) \in listeners

\* The 0-based indexes of the lines whose element holds a subscription.
SubscribedLines(st) == {k \in 0..(Len(st.lines) - 1) : elementAt(st.lines, k) \in st.listeners}

\* C13: after setActiveLine(idx), a second setActiveLine(idx) changes neither
\* the navigation state nor the subscribed surfaces, and does not leave two
\* lines subscribed.
SetActiveLineIdempotent ==
    op.name = "setActiveLine" =>
        LET twice == setActiveLine(Doc, op.index)
        IN  /\ twice = Doc
            /\ Cardinality(SubscribedLines(twice)) <= 1

\* C14: setLines(f) leaves lines with the length and order of f, every entry
\* with cursor_position 0, and for a non-empty f the previous active_line
\* clamped into the new range, with that line activated.
SetLinesReplaces ==
    [][op'.name = "setLines" =>
          LET f == op'.arg
          IN
          /\ f \in SurfaceLists
          /\ Len(lines') = Len(f)
          /\ \A k \in 1..Len(f) : lines'[k].element = f[k] /\ lines'[k].cursor_position = 0
          /\ active_line' = Clamp(active_line, Len(f))
          /\ f[active_line' + 1] \in listeners'
          /\ activeElement' = f[active_line' + 1]]_vars

\* C14 witness: setLines delivered two lines while the second line was
\* active, and the second line of the new list is active and subscribed.
RefreshKeptSecondLine ==
    /\ op.name = "setLines"
    /\ op.index = 1
    /\ Len(lines) = 2
    /\ active_line = 1
    /\ \A k \in 1..Len(lines) : lines[k].cursor_position = 0
    /\ elementAt(lines, 1) \in listeners
    /\ activeElement = elementAt(lines, 1)

\* C19: in normal mode every key handed to the engine has its default
\* suppressed, and every key other than 'a' and 'i' leaves the mode normal.
NormalModeSuppresses ==
    ev.key # "none" /\ ev.mode = "normal" =>
        /\ ev.defaultPrevented
        /\ ev.key \notin {"a", "i"} => mode = "normal"

\* C19 witness: a key without a binding was pressed in normal mode.
UnboundKeySuppressed ==
    /\ ev.key = "x"
    /\ ev.mode = "normal"
    /\ ev.defaultPrevented
    /\ mode = "normal"

(***************************************************************************)
(* The registry emptied: setLines with an empty list, which discovery      *)
(* never delivers, added to the actions of the registry specification.     *)
(***************************************************************************)
ClearLines == SetLines(<<>>)

NextClear ==
    \/ ClearLines
    \/ \E f \in SurfaceLists : SetLines(f)
    \/ \E idx \in (0 - 1)..(NumSurfaces + 1) : SetActiveLine(idx)
    \/ \E key \in Keys : KeyDown(key)
    \/ \E s \in Listed : \E caret \in ClickTargets(s) : UserClick(s, caret)
    \/ UserClickOutside

SpecClear == Init /\ [][NextClear]_vars

Motions == {"h", "j", "k", "l", "W"}

\* C16: while the registry is empty, a motion key handled in normal mode
\* changes neither the navigation state nor the selection.
MotionsInertWhenEmpty ==
    [][lines = <<>> /\ op'.name = "keydown" /\ mode = "normal" /\ ev'.key \in Motions
          => UNCHANGED <<lines, active_line, mode, sel>>]_vars

(***************************************************************************)
(* Discovery: initializeWithRetry, its poll and the mutation observer.     *)
(* host.dom is the list document.querySelectorAll returns, host.mutated    *)
(* says that mutation records are queued for the observer, host.path names *)
(* the return of initializeWithRetry that was taken.                       *)
(***************************************************************************)
maxAttempts == 10

findNotionEditableBlocks(h) == h.dom

attemptToFindElements(st, h) ==
    LET h1 == [h EXCEPT !.attempts = @ + 1]
        editableElements == findNotionEditableBlocks(h1)
    IN  IF Len(editableElements) > 0
        THEN [st |-> setLines(st, editableElements), host |-> h1, ret |-> TRUE]
        ELSE [st |-> st, host |-> h1, ret |-> FALSE]

\* setTimeout(..., 2000): the observer is created when the timer fires.
setupMutationObserver(h) == [h EXCEPT !.observer = "scheduled"]

initializeWithRetry(h) ==
    LET r == attemptToFindElements(createInfoContainer(initVimInfo),
                                   [h EXCEPT !.attempts = 0])
    IN  IF r.ret
        THEN [st |-> r.st, host |-> [r.host EXCEPT !.path = "immediate"]]
        ELSE [st |-> r.st,
              host |-> setupMutationObserver(
                           [r.host EXCEPT !.poll = "running", !.path = "polling"])]

\* The poll callback with the attempt ceiling left out.
pollCallback_NoCeiling(st, h) ==
    LET r == attemptToFindElements(st, h)
    IN  IF r.ret
        THEN [st |-> r.st, host |-> [r.host EXCEPT !.poll = "cleared"]]
        ELSE [st |-> r.st, host |-> r.host]

\* The callback of setInterval.
pollCallback(st, h) ==
    LET r == attemptToFindElements(st, h)
    IN  IF r.ret \/ r.host.attempts >= maxAttempts
        THEN [st |-> r.st, host |-> [r.host EXCEPT !.poll = "cleared"]]
        ELSE [st |-> r.st, host |-> r.host]

\* The callback of the MutationObserver; every mutation of the model adds or
\* removes nodes, so shouldRefresh is true whenever records are delivered.
observerCallback(st, h) ==
    LET editableElements == findNotionEditableBlocks(h)
        h1 == [h EXCEPT !.mutated = FALSE]
    IN  IF Len(editableElements) > 0
        THEN [st |-> setLines(st, editableElements), host |-> h1]
        ELSE [st |-> st, host |-> h1]

\* The lists of editable blocks the document can hold: the host appends and
\* removes blocks at the end of the page.
DomLists == {FirstLines(n) : n \in 0..NumSurfaces}

\* The state in which initializeWithRetry returns, for every document the
\* script can start in.
InitBoot ==
    /\ content \in {c \in [Surfaces -> RegistryTrees \cup {<<>>}] :
                       \A s \in Surfaces : s \in Listed <=> c[s] # <<>>}
    /\ \E d \in DomLists :
          LET r == initializeWithRetry([HostIdle EXCEPT !.dom = d])
          IN  Starts(r.st) /\ host = r.host
    /\ ev = NoEvent
    /\ op = Called("initializeWithRetry", 0, 0)

\* The interval timer fires.  The second conjunct of the guard keeps the
\* counter finite in every variant of the callback.
PollTick ==
    /\ host.poll = "running"
    /\ host.attempts <= maxAttempts
    /\ LET r == pollCallback(Doc, host)
       IN  /\ Becomes(r.st)
           /\ host' = r.host
           /\ op' = Called("poll", host.attempts + 1, IF r.st.lines # lines THEN 1 ELSE 0)
    /\ ev' = NoEvent
    /\ UNCHANGED content

\* The 2000 ms timer fires and the observer starts observing.
ObserverStarts ==
    /\ host.observer = "scheduled"
    /\ host' = [host EXCEPT !.observer = "observing"]
    /\ op' = Called("observe", 0, 0)
    /\ ev' = NoEvent
    /\ UNCHANGED <<lines, active_line, mode, listeners, indicator, activeElement, sel, content>>

\* The host adds or removes editable blocks; a record is queued when an
\* observer observes.
HostMutation(d) ==
    /\ d # host.dom
    /\ host' = [host EXCEPT !.dom = d, !.mutated = @ \/ host.observer = "observing"]
    /\ op' = Called("mutation", 0, 0)
    /\ ev' = NoEvent
    /\ UNCHANGED <<lines, active_line, mode, listeners, indicator, activeElement, sel, content>>

ObserverCallback ==
    /\ host.observer = "observing"
    /\ host.mutated
    /\ LET r == observerCallback(Doc, host)
       IN  /\ Becomes(r.st)
           /\ host' = r.host
    /\ op' = Called("observer", 0, 0)
    /\ ev' = NoEvent
    /\ UNCHANGED content

NextBoot ==
    \/ PollTick
    \/ ObserverStarts
    \/ \E d \in DomLists : HostMutation(d)
    \/ ObserverCallback

SpecBoot == InitBoot /\ [][NextBoot]_vars

\* The interval timer keeps firing while the poll is not cleared.
SpecBootLive == SpecBoot /\ WF_vars(PollTick)

\* C17: on every path through initialization a structural change of the host
\* document has an observer, started or about to start, to detect it and to
\* deliver the new surface list.
ChangesAreObserved ==
    op.name = "mutation" => host.observer # "none"

\* C18: the poll makes at most maxAttempts attempts, the immediate one
\* included, is cancelled by the attempt that finds surfaces or is the
\* maxAttempts-th, makes no attempt and no setLines call once stopped, and
\* always stops.
PollStops ==
    /\ [](host.attempts <= maxAttempts)
    /\ [](host.poll = "running" => host.attempts < maxAttempts)
    /\ [][op'.name = "poll" /\ (host.dom # <<>> \/ host'.attempts >= maxAttempts)
             => host'.poll = "cleared"]_vars
    /\ [][host.poll # "running"
             => host'.poll = host.poll /\ host'.attempts = host.attempts /\ op'.name # "poll"]_vars
    /\ (host.poll = "running" ~> host.poll = "cleared")

\* C18 witness: the tenth attempt failed and the poll is cancelled with the
\* registry still empty.
PollGaveUp ==
    /\ host.poll = "cleared"
    /\ host.attempts = maxAttempts
    /\ op.name = "poll"
    /\ lines = <<>>

====
